---- MODULE Spec2Model ----
(***************************************************************************)
(* Carton packing engine of the barcode software (src/app.py).             *)
(*                                                                         *)
(* pack_cartons_smart is modelled statement by statement: pc is the        *)
(* position inside the call, the other variables are its locals.  An       *)
(* insertion-ordered dict is a sequence of (key, value) records; a list    *)
(* is a sequence; the dicts of cart_items are referred to by their index   *)
(* in cart_items (object identity).                                        *)
(***************************************************************************)
EXTENDS Integers, Sequences, FiniteSets, TLC

VARIABLES
    cart_items,            \* the argument: list of runs (app.py:744-751)
    pc,                    \* position inside pack_cartons_smart
    items_by_type,         \* app.py:104
    all_cartons,           \* app.py:109
    bi,                    \* number of buckets the loop of line 111 has taken
    capacity,              \* app.py:112
    remainders,            \* app.py:113
    ii,                    \* number of items the loop of line 116 has taken
    current_serial,        \* app.py:123
    ri,                    \* number of remainders the loop of line 164 has taken
    remaining_to_pack,     \* app.py:165
    current_start,         \* app.py:166
    current_carton_items,  \* app.py:161
    current_carton_qty,    \* app.py:162
    rem_src,               \* history: run index of each entry of remainders
    cur_src,               \* history: run index of each line of current_carton_items
    carton_src,            \* history: per carton, emitting phase and run index of each line
    calls,                 \* number of calls of pack_cartons_smart started
    prev_cartons,          \* the list the previous call returned
    items_owner,           \* heap: index of the carton whose 'items' is the list
                           \* object current_carton_items, 0 when no carton holds it
    code_in,               \* the argument of the classifier (app.py:72, 79)
    cls_out,               \* what get_product_type and get_carton_capacity returned
    platform,              \* sys.platform, as printer.py:312 tests it
    available,             \* what is_tsc_printer_available() returns (printer.py:292)
    printer_name,          \* what find_tsc_printer() returns (printer.py:290)
    ppc,                   \* position in print_label
    last_error,            \* self._last_error
    errors,                \* printer.py:326
    mi,                    \* number of methods the loop of line 327 has taken
    result,                \* what print_label returned
    attempts,              \* history: the transports called, with what each did
    pa_pc,                 \* position in _print_all_cart
    all_barcodes,          \* app.py:1244
    pair_i,                \* i of app.py:1257
    success_count,         \* app.py:1240
    fail_count,            \* app.py:1241
    history                \* the rows save_barcode_history has inserted

\* the locals of pack_cartons_smart and their history
packLocals == <<pc, items_by_type, all_cartons, bi, capacity,
                remainders, ii, current_serial, ri, remaining_to_pack,
                current_start, current_carton_items, current_carton_qty,
                rem_src, cur_src, carton_src, calls, prev_cartons,
                items_owner>>

packVars == <<cart_items, packLocals>>

\* the classifier called on its own
clsVars == <<code_in, cls_out>>

\* what a step of pack_cartons_smart leaves alone
\* the state of TSCPrinter.print_label and its history
printVars == <<platform, available, printer_name, ppc, last_error, errors, mi,
               result, attempts>>

\* the locals of _print_all_cart and the history table
printAllVars == <<pa_pc, all_barcodes, pair_i, success_count, fail_count,
                  history>>

nonPack == <<clsVars, printVars, printAllVars>>

\* what a classifier call leaves alone
nonCls == <<packVars, printVars, printAllVars>>

\* what a step of print_label leaves alone
nonPrint == <<packVars, clsVars, printAllVars>>

vars == <<packVars, clsVars, printVars, printAllVars>>

-----------------------------------------------------------------------------
(* Bounds of the model *)

MaxRuns == 3
MaxRunsLive == 2
MaxCartLen == 2
MaxCodeLen == 5

-----------------------------------------------------------------------------
(* Product codes: strings as sequences of characters, so that startswith   *)
(* is a real prefix test.                                                  *)

WALT == <<"W", "A", "L", "T">>
PCS4 == <<"4", "P", "C", "S">>
LAPB == <<"L", "A", "P", "B">>

LAPB_NVYB == LAPB \o <<" ", "N", "V", "Y", "B">>
LAPB_BLCK == LAPB \o <<" ", "B", "L", "C", "K">>
WALT_BLCK == WALT \o <<" ", "B", "L", "C", "K">>

CapacityWALT == 150
CapacityPCS4 == 80
CapacityLAPB == 12
DefaultCapacity == 100

\* CARTON_CAPACITIES, in the dict's insertion order
CARTON_CAPACITIES ==
    << [prefix |-> WALT, capacity |-> CapacityWALT],
       [prefix |-> PCS4, capacity |-> CapacityPCS4],
       [prefix |-> LAPB, capacity |-> CapacityLAPB] >>

TypeOTHER == <<"O", "T", "H", "E", "R">>

\* the prefix looked for anywhere in the code, as `prefix in code` would
FoundIn(s, p) ==
    \E i \in 1..(Len(s) - Len(p) + 1) : SubSeq(s, i, i + Len(p) - 1) = p

\* str.startswith
StartsWith(s, p) == Len(p) <= Len(s) /\ SubSeq(s, 1, Len(p)) = p

\* indices of the table entries whose prefix the code starts with
Matching(product_code) ==
    {k \in 1..Len(CARTON_CAPACITIES) :
        StartsWith(product_code, CARTON_CAPACITIES[k].prefix)}

Min(S) == CHOOSE x \in S : \A y \in S : x <= y

get_carton_capacity(product_code) ==
    IF Matching(product_code) # {}
    THEN CARTON_CAPACITIES[Min(Matching(product_code))].capacity
    ELSE DefaultCapacity

get_product_type(product_code) ==
    IF Matching(product_code) # {}
    THEN CARTON_CAPACITIES[Min(Matching(product_code))].prefix
    ELSE TypeOTHER

-----------------------------------------------------------------------------
(* Inputs *)

Run(code, name, loc, s, e, q) ==
    [product |-> [code |-> code, name |-> name],
     location |-> [code |-> loc],
     quantity |-> q, start_serial |-> s, end_serial |-> e]

\* rows of the products table: two products of the LAPB bucket (the second
\* one entered by the operator) and one of the WALT bucket
Products ==
    { [code |-> LAPB_NVYB, name |-> "LAPTOP BAG NAVY BLUE"],
      [code |-> LAPB_BLCK, name |-> "LAPTOP BAG BLACK"],
      [code |-> WALT_BLCK, name |-> "WALLET BLACK"] }

\* serial ranges relative to the capacity c of the product: two partial
\* runs that together fill a carton exactly, a run of exactly one carton,
\* and a run of one carton and a tail one unit short of a second carton
Ranges(c) == { <<1, 5>>, <<6, 12>>, <<1, c>>, <<1, 2 * c - 1>> }

WellFormedRuns ==
    UNION { { Run(p.code, p.name, "LHR", r[1], r[2], r[2] - r[1] + 1) :
                r \in Ranges(get_carton_capacity(p.code)) } : p \in Products }

\* runs the packer is documented to reject: quantity 0, negative quantity
\* (end_serial < start_serial), quantity different from the serial span
MalformedRuns ==
    { Run(LAPB_NVYB, "LAPTOP BAG NAVY BLUE", "LHR", 1, 0, 0),
      Run(LAPB_NVYB, "LAPTOP BAG NAVY BLUE", "LHR", 5, 1, -3),
      Run(LAPB_BLCK, "LAPTOP BAG BLACK", "LHR", 1, 5, 7) }

Runs == WellFormedRuns \cup MalformedRuns

CartLists == UNION { [1..n -> Runs] : n \in 0..MaxRuns }

-----------------------------------------------------------------------------
(* pack_cartons_smart, app.py:86-222 *)

\* grouping of adjacent runs only: a type met again after another type
\* opens a new group
AddToTypeAdjacent(groups, idx, product_type) ==
    IF groups # <<>> /\ groups[Len(groups)].type = product_type
    THEN [groups EXCEPT ![Len(groups)].items = Append(@, idx)]
    ELSE Append(groups, [type |-> product_type, items |-> <<idx>>])

\* items put at the front of their group
AddToTypeFront(groups, idx, product_type) ==
    IF \E k \in 1..Len(groups) : groups[k].type = product_type
    THEN [k \in 1..Len(groups) |->
            IF groups[k].type = product_type
            THEN [groups[k] EXCEPT !.items = <<idx>> \o @]
            ELSE groups[k]]
    ELSE Append(groups, [type |-> product_type, items |-> <<idx>>])

\* lines 104-107: items_by_type[get_product_type(code)].append(item), one
\* item; a new key goes to the end of the dict, an existing key keeps its place
AddToType(groups, idx, product_type) ==
    IF \E k \in 1..Len(groups) : groups[k].type = product_type
    THEN [k \in 1..Len(groups) |->
            IF groups[k].type = product_type
            THEN [groups[k] EXCEPT !.items = Append(@, idx)]
            ELSE groups[k]]
    ELSE Append(groups, [type |-> product_type, items |-> <<idx>>])

\* lines 104-107 over the first n items of the cart
RECURSIVE GroupByType(_, _)
GroupByType(cart, n) ==
    IF n = 0 THEN <<>>
    ELSE AddToType(GroupByType(cart, n - 1), n,
                   get_product_type(cart[n].product.code))

\* the dict of a carton line or of a remainder (lines 133-140, 149-156, 173-180)
Line(code, name, s, e, q, loc) ==
    [product_code |-> code, product_name |-> name, start_serial |-> s,
     end_serial |-> e, quantity |-> q, location_code |-> loc]

\* the dict of a carton (lines 132-145, 202-208, 214-220)
Carton(items, cap, total, mixed, product_type) ==
    [items |-> items, capacity |-> cap, total_quantity |-> total,
     is_mixed |-> mixed, product_type |-> product_type]

\* line 127
RemainingQty(end_serial, cur) == end_serial - cur + 1

\* a carton end one serial too far
CartonEndPastEnd(cur, cap) == cur + cap

\* line 131
CartonEnd(cur, cap) == cur + cap - 1

\* a full carton that starts the next one on its own last serial
NextSerialOverlap(carton_end) == carton_end

\* line 146
NextSerial(carton_end) == carton_end + 1

\* free space counted one unit too large
SpaceInCartonPlusOne(cap, qty) == cap - qty + 1

\* line 169
SpaceInCarton(cap, qty) == cap - qty

\* the rule of line 198, first operand: more than one line
IsMixedByLines(items) == Len(items) > 1

\* lines 206 and 218: len(set(i['product_code'] for i in items)) > 1
IsMixed(items) ==
    Cardinality({items[k].product_code : k \in 1..Len(items)}) > 1

\* the capacity of the first item of the cart, whatever its bucket
BucketCapacityOfFirstCartItem(cart, group) ==
    get_carton_capacity(cart[1].product.code)

\* line 112: the capacity of the first item of the bucket
BucketCapacity(cart, group) ==
    get_carton_capacity(cart[group.items[1]].product.code)

\* a remainder put in front of the earlier ones
PushRemainderFront(list, x) == <<x>> \o list

\* line 149: remainders.append
PushRemainder(list, x) == Append(list, x)

Bucket == items_by_type[bi]
Item == cart_items[Bucket.items[ii]]

\* no carton holds the list object
NoCarton == 0

\* the buffer emptied in place: the name keeps the list the carton holds
ClearedInPlace(owner) == owner

\* lines 161 and 209: current_carton_items = [] binds the name to a new list,
\* which no carton holds
NewList(owner) == NoCarton

\* list.append on the buffer (lines 173, 186) as the result list sees it: a
\* carton that holds the same list object gets the line too
AppendSeen(cartons, owner, line) ==
    IF owner = NoCarton THEN cartons
    ELSE [cartons EXCEPT ![owner].items = Append(@, line)]

\* no classifier call of its own
ClsIdle ==
    /\ code_in = <<>>
    /\ cls_out = [called |-> FALSE]

\* the locals before the first statement of the call
PackEntry ==
    /\ pc = "start"
    /\ items_by_type = <<>>
    /\ all_cartons = <<>>
    /\ bi = 0
    /\ capacity = 0
    /\ remainders = <<>>
    /\ ii = 0
    /\ current_serial = 0
    /\ ri = 0
    /\ remaining_to_pack = 0
    /\ current_start = 0
    /\ current_carton_items = <<>>
    /\ current_carton_qty = 0
    /\ rem_src = <<>>
    /\ cur_src = <<>>
    /\ carton_src = <<>>
    /\ calls = 1
    /\ prev_cartons = <<>>
    /\ items_owner = NoCarton

\* Python's None
None == "None"

\* no result yet
NoResult == [ok |-> FALSE, text |-> None, via |-> None, errors |-> <<>>]

\* no print_label call
PrintIdle ==
    /\ platform = "other"
    /\ available = FALSE
    /\ printer_name = "TSC TE200"
    /\ ppc = "idle"
    /\ last_error = None
    /\ errors = <<>>
    /\ mi = 0
    /\ result = NoResult
    /\ attempts = <<>>

\* no _print_all_cart call
PrintAllIdle ==
    /\ pa_pc = "idle"
    /\ all_barcodes = <<>>
    /\ pair_i = 0
    /\ success_count = 0
    /\ fail_count = 0
    /\ history = <<>>

Init ==
    /\ cart_items \in CartLists
    /\ PackEntry
    /\ ClsIdle
    /\ PrintIdle
    /\ PrintAllIdle

\* a result list that starts with an empty placeholder carton
PlaceholderCartons == <<Carton(<<>>, 0, 0, FALSE, TypeOTHER)>>

\* a result list that outlives the call
StaleCartons == all_cartons

\* line 109: all_cartons = []
FreshCartons == <<>>

\* lines 103-109
GroupItems ==
    /\ pc = "start"
    /\ items_by_type' = GroupByType(cart_items, Len(cart_items))
    /\ all_cartons' = FreshCartons
    /\ carton_src' = <<>>
    /\ bi' = 0
    /\ pc' = "bucket"
    /\ items_owner' = NoCarton
    /\ UNCHANGED <<cart_items, capacity, remainders, ii, current_serial, ri,
                   remaining_to_pack, current_start, current_carton_items,
                   current_carton_qty, rem_src, cur_src, calls, prev_cartons>>
    /\ UNCHANGED nonPack

\* lines 111-113: the next bucket of the dict
NextBucket ==
    /\ pc = "bucket"
    /\ bi < Len(items_by_type)
    /\ bi' = bi + 1
    /\ capacity' = BucketCapacity(cart_items, items_by_type[bi + 1])
    /\ remainders' = <<>>
    /\ rem_src' = <<>>
    /\ ii' = 0
    /\ pc' = "item"
    /\ UNCHANGED <<cart_items, items_by_type, all_cartons, current_serial, ri,
                   remaining_to_pack, current_start, current_carton_items,
                   current_carton_qty, cur_src, carton_src, calls, prev_cartons,
                   items_owner>>
    /\ UNCHANGED nonPack

\* line 222: the dict is exhausted
Return ==
    /\ pc = "bucket"
    /\ bi = Len(items_by_type)
    /\ pc' = "done"
    /\ UNCHANGED <<cart_items, items_by_type, all_cartons, bi, capacity,
                   remainders, ii, current_serial, ri, remaining_to_pack,
                   current_start, current_carton_items, current_carton_qty,
                   rem_src, cur_src, carton_src, calls, prev_cartons,
                   items_owner>>
    /\ UNCHANGED nonPack

\* lines 116-123: the next item of the bucket
NextItem ==
    /\ pc = "item"
    /\ ii < Len(Bucket.items)
    /\ ii' = ii + 1
    /\ current_serial' = cart_items[Bucket.items[ii + 1]].start_serial
    /\ pc' = "fill"
    /\ UNCHANGED <<cart_items, items_by_type, all_cartons, bi, capacity,
                   remainders, ri, remaining_to_pack, current_start,
                   current_carton_items, current_carton_qty, rem_src, cur_src,
                   carton_src, calls, prev_cartons,
                   items_owner>>
    /\ UNCHANGED nonPack

\* lines 126-146: a full carton of one product
FillCarton ==
    /\ pc = "fill"
    /\ current_serial <= Item.end_serial
    /\ RemainingQty(Item.end_serial, current_serial) >= capacity
    /\ LET carton_end == CartonEnd(current_serial, capacity) IN
        /\ all_cartons' = Append(all_cartons,
              Carton(<<Line(Item.product.code, Item.product.name,
                            current_serial, carton_end, capacity,
                            Item.location.code)>>,
                     capacity, capacity, FALSE, Bucket.type))
        /\ carton_src' = Append(carton_src,
              [phase |-> "fill", runs |-> <<Bucket.items[ii]>>])
        /\ current_serial' = NextSerial(carton_end)
    /\ UNCHANGED <<cart_items, pc, items_by_type, bi, capacity, remainders, ii,
                   ri, remaining_to_pack, current_start, current_carton_items,
                   current_carton_qty, rem_src, cur_src, calls, prev_cartons,
                   items_owner>>
    /\ UNCHANGED nonPack

\* lines 126-129, 147-157: the tail of the run is kept for mixing
SaveRemainder ==
    /\ pc = "fill"
    /\ current_serial <= Item.end_serial
    /\ RemainingQty(Item.end_serial, current_serial) < capacity
    /\ remainders' = PushRemainder(remainders,
          Line(Item.product.code, Item.product.name, current_serial,
               Item.end_serial, RemainingQty(Item.end_serial, current_serial),
               Item.location.code))
    /\ rem_src' = PushRemainder(rem_src, Bucket.items[ii])
    /\ pc' = "item"
    /\ UNCHANGED <<cart_items, items_by_type, all_cartons, bi, capacity, ii,
                   current_serial, ri, remaining_to_pack, current_start,
                   current_carton_items, current_carton_qty, cur_src,
                   carton_src, calls, prev_cartons,
                   items_owner>>
    /\ UNCHANGED nonPack

\* line 126: the run is used up
FillDone ==
    /\ pc = "fill"
    /\ current_serial > Item.end_serial
    /\ pc' = "item"
    /\ UNCHANGED <<cart_items, items_by_type, all_cartons, bi, capacity,
                   remainders, ii, current_serial, ri, remaining_to_pack,
                   current_start, current_carton_items, current_carton_qty,
                   rem_src, cur_src, carton_src, calls, prev_cartons,
                   items_owner>>
    /\ UNCHANGED nonPack

\* line 160 with a non-empty list, lines 161-162
BeginMix ==
    /\ pc = "item"
    /\ ii = Len(Bucket.items)
    /\ remainders # <<>>
    /\ current_carton_items' = <<>>
    /\ cur_src' = <<>>
    /\ current_carton_qty' = 0
    /\ items_owner' = NewList(items_owner)
    /\ ri' = 0
    /\ pc' = "remainder"
    /\ UNCHANGED <<cart_items, items_by_type, all_cartons, bi, capacity,
                   remainders, ii, current_serial, remaining_to_pack,
                   current_start, rem_src, carton_src, calls, prev_cartons>>
    /\ UNCHANGED nonPack

\* line 160 with an empty list: on to the next bucket
SkipMix ==
    /\ pc = "item"
    /\ ii = Len(Bucket.items)
    /\ remainders = <<>>
    /\ pc' = "bucket"
    /\ UNCHANGED <<cart_items, items_by_type, all_cartons, bi, capacity,
                   remainders, ii, current_serial, ri, remaining_to_pack,
                   current_start, current_carton_items, current_carton_qty,
                   rem_src, cur_src, carton_src, calls, prev_cartons,
                   items_owner>>
    /\ UNCHANGED nonPack

\* lines 164-166: the next remainder
NextRemainder ==
    /\ pc = "remainder"
    /\ ri < Len(remainders)
    /\ ri' = ri + 1
    /\ remaining_to_pack' = remainders[ri + 1].quantity
    /\ current_start' = remainders[ri + 1].start_serial
    /\ pc' = "mix"
    /\ UNCHANGED <<cart_items, items_by_type, all_cartons, bi, capacity,
                   remainders, ii, current_serial, current_carton_items,
                   current_carton_qty, rem_src, cur_src, carton_src, calls,
                   prev_cartons,
                   items_owner>>
    /\ UNCHANGED nonPack

\* a slice that carries the quantity of the whole remainder
SliceWholeQuantity(remainder, start, q) ==
    Line(remainder.product_code, remainder.product_name, start,
         start + q - 1, remainder.quantity, remainder.location_code)

\* a slice whose end is the serial after its last one
SliceEndExclusive(remainder, start, q) ==
    Line(remainder.product_code, remainder.product_name, start,
         start + q, q, remainder.location_code)

\* a slice that starts one serial late
SliceOffByOne(remainder, start, q) ==
    Line(remainder.product_code, remainder.product_name, start + 1,
         start + q, q, remainder.location_code)

\* lines 173-180 and 186-193: a slice of q units of the remainder, from
\* current_start
Slice(remainder, start, q) ==
    Line(remainder.product_code, remainder.product_name, start,
         start + q - 1, q, remainder.location_code)

\* the counter set to the last quantity instead of raised by it
FilledAfterLast(qty, n) == n

\* line 181: current_carton_qty += remaining_to_pack
FilledAfter(qty, n) == qty + n

\* lines 168-182: the rest of the remainder fits in the current carton
MixFits ==
    /\ pc = "mix"
    /\ remaining_to_pack > 0
    /\ remaining_to_pack <= SpaceInCarton(capacity, current_carton_qty)
    /\ current_carton_items' = Append(current_carton_items,
          Slice(remainders[ri], current_start, remaining_to_pack))
    /\ all_cartons' = AppendSeen(all_cartons, items_owner,
          Slice(remainders[ri], current_start, remaining_to_pack))
    /\ cur_src' = Append(cur_src, rem_src[ri])
    /\ current_carton_qty' = FilledAfter(current_carton_qty, remaining_to_pack)
    /\ remaining_to_pack' = 0
    /\ UNCHANGED <<cart_items, pc, items_by_type, bi, capacity,
                   remainders, ii, current_serial, ri, current_start, rem_src,
                   carton_src, calls, prev_cartons, items_owner>>
    /\ UNCHANGED nonPack

\* the running counter written on a sealed carton, as line 217 does
SealedTotalFromQty(cap, qty) == qty

\* line 205: the total_quantity written on a sealed carton
SealedTotal(cap, qty) == cap

\* lines 168-171, 183-210: the current carton is filled up with the front
\* of the remainder (when there is space left) and sealed
MixSeal ==
    /\ pc = "mix"
    /\ remaining_to_pack > 0
    /\ remaining_to_pack > SpaceInCarton(capacity, current_carton_qty)
    /\ LET space_in_carton == SpaceInCarton(capacity, current_carton_qty)
           sealed == IF space_in_carton > 0
                     THEN Append(current_carton_items,
                            Slice(remainders[ri], current_start, space_in_carton))
                     ELSE current_carton_items
           src == IF space_in_carton > 0
                  THEN Append(cur_src, rem_src[ri]) ELSE cur_src
           seen == IF space_in_carton > 0
                   THEN AppendSeen(all_cartons, items_owner,
                          Slice(remainders[ri], current_start, space_in_carton))
                   ELSE all_cartons
       IN
        /\ current_start' = IF space_in_carton > 0
                            THEN current_start + space_in_carton
                            ELSE current_start
        /\ remaining_to_pack' = IF space_in_carton > 0
                                THEN remaining_to_pack - space_in_carton
                                ELSE remaining_to_pack
        /\ all_cartons' = Append(seen,
              Carton(sealed, capacity,
                     SealedTotal(capacity, current_carton_qty),
                     IsMixed(sealed), Bucket.type))
        /\ carton_src' = Append(carton_src, [phase |-> "mix", runs |-> src])
    /\ current_carton_items' = <<>>
    /\ cur_src' = <<>>
    /\ current_carton_qty' = 0
    /\ items_owner' = NewList(Len(all_cartons) + 1)
    /\ UNCHANGED <<cart_items, pc, items_by_type, bi, capacity, remainders, ii,
                   current_serial, ri, rem_src, calls, prev_cartons>>
    /\ UNCHANGED nonPack

\* line 168: the remainder is used up
MixDone ==
    /\ pc = "mix"
    /\ remaining_to_pack <= 0
    /\ pc' = "remainder"
    /\ UNCHANGED <<cart_items, items_by_type, all_cartons, bi, capacity,
                   remainders, ii, current_serial, ri, remaining_to_pack,
                   current_start, current_carton_items, current_carton_qty,
                   rem_src, cur_src, carton_src, calls, prev_cartons,
                   items_owner>>
    /\ UNCHANGED nonPack

\* the capacity written on the last carton, as line 205 does
LastTotalCapacity(cap, qty) == cap

\* line 217: the total_quantity written on the last carton
LastTotal(cap, qty) == qty

\* lines 212-220: after the last remainder, the last partial carton
LastCarton ==
    /\ pc = "remainder"
    /\ ri = Len(remainders)
    /\ IF current_carton_items # <<>>
       THEN /\ all_cartons' = Append(all_cartons,
                  Carton(current_carton_items, capacity,
                         LastTotal(capacity, current_carton_qty),
                         IsMixed(current_carton_items), Bucket.type))
            /\ carton_src' = Append(carton_src,
                  [phase |-> "mix", runs |-> cur_src])
            /\ items_owner' = Len(all_cartons) + 1
       ELSE UNCHANGED <<all_cartons, carton_src, items_owner>>
    /\ pc' = "bucket"
    /\ UNCHANGED <<cart_items, items_by_type, bi, capacity, remainders, ii,
                   current_serial, ri, remaining_to_pack, current_start,
                   current_carton_items, current_carton_qty, rem_src, cur_src,
                   calls, prev_cartons>>
    /\ UNCHANGED nonPack

\* one call of pack_cartons_smart
Pack ==
    \/ GroupItems \/ NextBucket \/ Return
    \/ NextItem \/ FillCarton \/ SaveRemainder \/ FillDone
    \/ BeginMix \/ SkipMix \/ NextRemainder
    \/ MixFits \/ MixSeal \/ MixDone \/ LastCarton

Next == Pack

Spec == Init /\ [][Next]_vars

\* the call runs to its end: the interpreter takes the next statement
\* whenever there is one
InitLive ==
    /\ cart_items \in UNION { [1..n -> Runs] : n \in 0..MaxRunsLive }
    /\ PackEntry
    /\ ClsIdle
    /\ PrintIdle
    /\ PrintAllIdle

SpecLive == InitLive /\ [][Next]_vars /\ WF_vars(Next)

\* a second call on the same cart_items, as _generate_pdf (line 913) and
\* _generate_delivery_note_pdf (line 1087) make on the same cart
Recall ==
    /\ pc = "done"
    /\ calls = 1
    /\ calls' = 2
    /\ prev_cartons' = all_cartons
    /\ pc' = "start"
    /\ UNCHANGED <<cart_items, items_by_type, all_cartons, bi, capacity,
                   remainders, ii, current_serial, ri, remaining_to_pack,
                   current_start, current_carton_items, current_carton_qty,
                   rem_src, cur_src, carton_src, items_owner>>
    /\ UNCHANGED nonPack

NextRepeat == Pack \/ Recall

SpecRepeat == Init /\ [][NextRepeat]_vars

\* the row of the delivery note's carton breakdown, lines 1175-1190: the
\* products, quantities and serial ranges it prints for a carton
BreakdownRow(carton) ==
    IF carton.is_mixed
    THEN [k \in 1..Len(carton.items) |->
            [product |-> carton.items[k].product_code,
             quantity |-> carton.items[k].quantity,
             serials |-> <<carton.items[k].start_serial,
                           carton.items[k].end_serial>>]]
    ELSE << [product |-> carton.items[1].product_code,
             quantity |-> carton.items[1].quantity,
             serials |-> <<carton.items[1].start_serial,
                           carton.items[1].end_serial>>] >>

-----------------------------------------------------------------------------
(* The classifier on its own, app.py:66-84 *)

\* the characters of the three prefixes
CodeChars == {"W", "A", "L", "T", "4", "P", "C", "S", "B"}

\* every code of at most MaxCodeLen characters, the empty code included
Codes == UNION { [1..n -> CodeChars] : n \in 0..MaxCodeLen }

InitClassify ==
    /\ cart_items = <<>>
    /\ PackEntry
    /\ code_in \in Codes
    /\ cls_out = [called |-> FALSE]
    /\ PrintIdle
    /\ PrintAllIdle

\* get_product_type(code) and get_carton_capacity(code), as lines 106 and 112
\* call them
Classify ==
    /\ ~cls_out.called
    /\ cls_out' = [called |-> TRUE,
                   type |-> get_product_type(code_in),
                   capacity |-> get_carton_capacity(code_in)]
    /\ UNCHANGED code_in
    /\ UNCHANGED nonCls

NextClassify == Classify

SpecClassify == InitClassify /\ [][NextClassify]_vars

-----------------------------------------------------------------------------
(* TSCPrinter.print_label, printer.py:285-337, and its transports,          *)
(* printer.py:170-283. What the operating system does with a transport is   *)
(* the outcome; a transport returns whether it printed and the value it     *)
(* assigned to self._last_error, None when it assigned nothing. The text    *)
(* an exception adds to a message is left out.                              *)

Spooler == "Windows Spooler"
FileCopy == "File Copy"
DirectUSB == "Direct USB"
SerialPort == "Serial Port"
LPCommand == "LP Command"

Sent == [ok |-> TRUE, error |-> None]
Failed(error) == [ok |-> FALSE, error |-> error]

\* lines 170-192
send_via_win32print(outcome) ==
    CASE outcome = "ok" -> Sent
      [] outcome = "ImportError" ->
            Failed("pywin32 not installed. Run: pip install pywin32")
      [] outcome = "Exception" -> Failed("win32print error")

\* lines 194-219
send_via_file_copy(outcome) ==
    CASE outcome = "ok" -> Sent
      [] outcome = "returncode" -> Failed("File copy failed")
      [] outcome = "Exception" -> Failed("File copy error")

\* a transport that returns False without a word
send_via_usb_port_silent(outcome) ==
    CASE outcome = "ok" -> Sent
      [] outcome = "no port" -> [ok |-> FALSE, error |-> None]

\* lines 221-247: the first port that opens, else the error of line 246
send_via_usb_port(outcome) ==
    CASE outcome = "ok" -> Sent
      [] outcome = "no port" -> Failed("No USB printer port found")

\* lines 249-264
send_via_serial(outcome) ==
    CASE outcome = "ok" -> Sent
      [] outcome = "ImportError" ->
            Failed("pyserial not installed. Run: pip install pyserial")
      [] outcome = "Exception" -> Failed("Serial port error")

\* lines 266-283
send_via_lp(outcome) ==
    CASE outcome = "ok" -> Sent
      [] outcome = "returncode" -> Failed("lp error")
      [] outcome = "Exception" -> Failed("lp command error")

\* what can happen to a transport
Outcomes(method_name) ==
    CASE method_name = Spooler -> {"ok", "ImportError", "Exception"}
      [] method_name = FileCopy -> {"ok", "returncode", "Exception"}
      [] method_name = DirectUSB -> {"ok", "no port"}
      [] method_name = SerialPort -> {"ok", "ImportError", "Exception"}
      [] method_name = LPCommand -> {"ok", "returncode", "Exception"}

\* method_func() of line 329
method_func(method_name, outcome) ==
    CASE method_name = Spooler -> send_via_win32print(outcome)
      [] method_name = FileCopy -> send_via_file_copy(outcome)
      [] method_name = DirectUSB -> send_via_usb_port(outcome)
      [] method_name = SerialPort -> send_via_serial(outcome)
      [] method_name = LPCommand -> send_via_lp(outcome)

\* the direct port tried before the spooler and the lp command
MethodsPortFirst(plat) ==
    IF plat = "win32"
    THEN <<DirectUSB, Spooler, FileCopy, SerialPort>>
    ELSE <<DirectUSB, LPCommand, SerialPort>>

\* lines 310-324
Methods(plat) ==
    IF plat = "win32"
    THEN <<Spooler, FileCopy, DirectUSB, SerialPort>>
    ELSE <<LPCommand, DirectUSB, SerialPort>>

\* the printers of this machine and of another one
PrinterNames == {"TSC TE200", "TSC TTP-244"}

\* what an earlier call left in self._last_error
EarlierErrors == {None, "error of an earlier call"}

InitPrint ==
    /\ cart_items = <<>>
    /\ PackEntry
    /\ ClsIdle
    /\ platform \in {"win32", "other"}
    /\ available \in BOOLEAN
    /\ printer_name \in PrinterNames
    /\ ppc = "idle"
    /\ last_error \in EarlierErrors
    /\ errors = <<>>
    /\ mi = 0
    /\ result = NoResult
    /\ attempts = <<>>
    /\ PrintAllIdle

\* lines 288-301: no TSC printer among the printers of the machine
PrintNotFound ==
    /\ ppc = "idle"
    /\ ~available
    /\ last_error' = None
    /\ result' = [ok |-> FALSE, text |-> "TSC printer not found", via |-> None,
                  errors |-> <<>>]
    /\ ppc' = "returned"
    /\ UNCHANGED <<platform, available, printer_name, errors, mi, attempts>>
    /\ UNCHANGED nonPrint

\* lines 288-326: the label is built and the loop is entered
PrintBegin ==
    /\ ppc = "idle"
    /\ available
    /\ last_error' = None
    /\ errors' = <<>>
    /\ mi' = 0
    /\ ppc' = "methods"
    /\ UNCHANGED <<platform, available, printer_name, result, attempts>>
    /\ UNCHANGED nonPrint

\* lines 327-332: the next transport. The transports catch every Exception
\* themselves, so that the handler of lines 333-334 never runs.
TryMethod ==
    /\ ppc = "methods"
    /\ mi < Len(Methods(platform))
    /\ LET method_name == Methods(platform)[mi + 1] IN
       \E outcome \in Outcomes(method_name) :
          LET sent == method_func(method_name, outcome)
              err == IF sent.error # None THEN sent.error ELSE last_error
          IN
            /\ attempts' = Append(attempts,
                  [method |-> method_name, ok |-> sent.ok, error |-> sent.error])
            /\ last_error' = err
            /\ mi' = mi + 1
            /\ IF sent.ok
               THEN /\ result' = [ok |-> TRUE, text |-> "Printed via",
                                  via |-> <<method_name, printer_name>>,
                                  errors |-> <<>>]
                    /\ ppc' = "returned"
                    /\ UNCHANGED errors
               ELSE /\ errors' = IF err # None
                                 THEN Append(errors, <<method_name, err>>)
                                 ELSE errors
                    /\ UNCHANGED <<result, ppc>>
    /\ UNCHANGED <<platform, available, printer_name>>
    /\ UNCHANGED nonPrint

\* lines 336-337: every transport has returned False
AllFailed ==
    /\ ppc = "methods"
    /\ mi = Len(Methods(platform))
    /\ result' = [ok |-> FALSE, text |-> "All print methods failed:",
                  via |-> None, errors |-> errors]
    /\ ppc' = "returned"
    /\ UNCHANGED <<platform, available, printer_name, last_error, errors, mi,
                   attempts>>
    /\ UNCHANGED nonPrint

NextPrint == PrintNotFound \/ PrintBegin \/ TryMethod \/ AllFailed

SpecPrint == InitPrint /\ [][NextPrint]_vars

-----------------------------------------------------------------------------
(* The cart of the main window, app.py:716-798, the exports that pack it   *)
(* and _print_all_cart, app.py:1229-1310. The handlers run one at a time,  *)
(* on the thread of the window. A product, a destination and a delivery    *)
(* code are selected; a handler that only shows a warning changes nothing. *)

\* what the operator types in the quantity field
QuantityEntries == {-3, 0, 5, 12}

\* what the operator types in the serial field when "custom serial" is ticked
SerialEntries == {5}

\* line 734: the start serial is 1 unless a custom one is asked for
StartSerial(custom, serial_start) == IF custom THEN serial_start ELSE 1

\* line 739
EndSerial(start_serial, qty) == start_serial + qty - 1

\* lines 716-759
add_to_cart ==
    /\ pc = "start"
    /\ pa_pc = "idle"
    /\ Len(cart_items) < MaxCartLen
    /\ \E product \in Products, qty \in QuantityEntries, custom \in BOOLEAN,
          serial_start \in SerialEntries :
          LET start_serial == StartSerial(custom, serial_start) IN
          cart_items' = Append(cart_items,
              Run(product.code, product.name, "LHR", start_serial,
                  EndSerial(start_serial, qty), qty))
    /\ UNCHANGED <<packLocals, nonPack>>

\* the list without the items at the selected indices (lines 789-791)
Without(list, indices) ==
    LET kept == { k \in 1..Len(list) : k \notin indices }
        nth(n) == CHOOSE k \in kept :
                      Cardinality({ j \in kept : j < k }) = n - 1
    IN  [n \in 1..Cardinality(kept) |-> list[nth(n)]]

\* lines 782-792, with a selection
remove_from_cart ==
    /\ pc = "start"
    /\ pa_pc = "idle"
    /\ \E selection \in SUBSET (1..Len(cart_items)) :
          /\ selection # {}
          /\ cart_items' = Without(cart_items, selection)
    /\ UNCHANGED <<packLocals, nonPack>>

\* lines 794-798, confirmed
clear_cart ==
    /\ pc = "start"
    /\ pa_pc = "idle"
    /\ cart_items # <<>>
    /\ cart_items' = <<>>
    /\ UNCHANGED <<packLocals, nonPack>>

\* lines 1086-1087, 912-913: an export packs the cart, whatever it holds
ExportCart ==
    /\ pa_pc = "idle"
    /\ Pack

\* line 1088: total_items of the delivery note
RECURSIVE total_items(_)
total_items(items) ==
    IF items = <<>> THEN 0
    ELSE items[1].quantity + total_items(Tail(items))

\* lines 1246-1254: the barcodes of one cart item, one per serial
RECURSIVE BarcodesOf(_, _)
BarcodesOf(item, serial) ==
    IF serial > item.end_serial THEN <<>>
    ELSE << [barcode |-> <<item.location.code, item.product.code, serial>>,
             product_name |-> item.product.name] >>
         \o BarcodesOf(item, serial + 1)

\* lines 1244-1254
RECURSIVE CollectBarcodes(_)
CollectBarcodes(items) ==
    IF items = <<>> THEN <<>>
    ELSE BarcodesOf(items[1], items[1].start_serial)
         \o CollectBarcodes(Tail(items))

\* the positional parameters of print_label after self, printer.py:285-287
PrintLabelParams == 6

\* the positional arguments of the call of app.py:1263-1271
PrintLabelArgs == 7

\* lines 1229-1257, with a cart that is not empty
PrintAllBegin ==
    /\ pc = "start"
    /\ pa_pc = "idle"
    /\ cart_items # <<>>
    /\ success_count' = 0
    /\ fail_count' = 0
    /\ all_barcodes' = CollectBarcodes(cart_items)
    /\ pair_i' = 0
    /\ pa_pc' = "loop"
    /\ UNCHANGED history
    /\ UNCHANGED <<packVars, clsVars, printVars>>

\* lines 1258-1300: one pass, two stickers when there are two left. A call
\* with more positional arguments than the method takes raises TypeError
\* before the method runs, and the handler ends there.
PrintPass ==
    /\ pa_pc = "loop"
    /\ pair_i < Len(all_barcodes)
    /\ LET left_item == all_barcodes[pair_i + 1]
           has_right == pair_i + 1 < Len(all_barcodes)
           saved == IF has_right
                    THEN <<left_item.barcode, all_barcodes[pair_i + 2].barcode>>
                    ELSE <<left_item.barcode>>
       IN  IF PrintLabelArgs > PrintLabelParams
           THEN /\ pa_pc' = "raised"
                /\ UNCHANGED <<pair_i, success_count, fail_count, history>>
           ELSE \E success \in BOOLEAN :
                /\ IF success
                   THEN /\ history' = history \o saved
                        /\ success_count' = success_count + Len(saved)
                        /\ UNCHANGED fail_count
                   ELSE /\ fail_count' = fail_count + Len(saved)
                        /\ UNCHANGED <<success_count, history>>
                /\ pair_i' = pair_i + 2
                /\ UNCHANGED pa_pc
    /\ UNCHANGED all_barcodes
    /\ UNCHANGED <<packVars, clsVars, printVars>>

\* lines 1258, 1302-1310: the loop is over, the cart is emptied
PrintAllEnd ==
    /\ pa_pc = "loop"
    /\ pair_i >= Len(all_barcodes)
    /\ cart_items' = <<>>
    /\ pa_pc' = "finished"
    /\ UNCHANGED <<all_barcodes, pair_i, success_count, fail_count, history>>
    /\ UNCHANGED <<packLocals, clsVars, printVars>>

InitCart ==
    /\ cart_items = <<>>
    /\ PackEntry
    /\ ClsIdle
    /\ PrintIdle
    /\ PrintAllIdle

NextCart ==
    \/ add_to_cart \/ remove_from_cart \/ clear_cart
    \/ ExportCart
    \/ PrintAllBegin \/ PrintPass \/ PrintAllEnd

SpecCart == InitCart /\ [][NextCart]_vars

-----------------------------------------------------------------------------
(* Properties *)

Cartons == 1..Len(all_cartons)

\* positions <<carton, line>> of the lines of the result
LinePos ==
    UNION { { <<c, l>> : l \in 1..Len(all_cartons[c].items) } : c \in Cartons }

LineAt(p) == all_cartons[p[1]].items[p[2]]

\* the lines that come from run r of cart_items
LinesOf(r) == { p \in LinePos : carton_src[p[1]].runs[p[2]] = r }

Serials(line) == line.start_serial .. line.end_serial

RECURSIVE SumQty(_)
SumQty(items) ==
    IF items = <<>> THEN 0
    ELSE items[1].quantity + SumQty(Tail(items))

DistinctCodes(items) == { items[k].product_code : k \in 1..Len(items) }

\* index of the first run of cart_items whose product type is t
FirstRun(t) ==
    Min({ r \in 1..Len(cart_items) :
            get_product_type(cart_items[r].product.code) = t })

\* C1: when the call has returned, for every run of cart_items the serial
\* slices of the lines that come from it are pairwise disjoint and their
\* union is exactly start_serial..end_serial of the run.
C1_Coverage ==
    pc = "done" =>
        \A r \in 1..Len(cart_items) :
            /\ \A p, q \in LinesOf(r) :
                    p # q => Serials(LineAt(p)) \cap Serials(LineAt(q)) = {}
            /\ UNION { Serials(LineAt(p)) : p \in LinesOf(r) }
                  = cart_items[r].start_serial .. cart_items[r].end_serial

\* a run cut into a full carton and a tail that the mixer split over two cartons
C1_Witness ==
    /\ pc = "done"
    /\ \E r \in 1..Len(cart_items) :
          /\ Cardinality(LinesOf(r)) >= 3
          /\ \E p, q \in LinesOf(r) :
                /\ carton_src[p[1]].phase = "fill"
                /\ carton_src[q[1]].phase = "mix"

\* C2: in every carton of the returned list the quantities of the lines add
\* up to at most the carton's capacity.
C2_CapacityBound ==
    pc = "done" =>
        \A c \in Cartons : SumQty(all_cartons[c].items) <= all_cartons[c].capacity

\* a returned list with a mixer carton of several lines filled to capacity
\* and one filled below capacity
C2_Witness ==
    /\ pc = "done"
    /\ \E c, d \in Cartons :
          /\ Len(all_cartons[c].items) >= 2
          /\ SumQty(all_cartons[c].items) = all_cartons[c].capacity
          /\ SumQty(all_cartons[d].items) < all_cartons[d].capacity

\* C3: in every carton of the returned list is_mixed is true exactly when
\* its lines carry more than one distinct product_code.
C3_MixedFlag ==
    pc = "done" =>
        \A c \in Cartons :
            all_cartons[c].is_mixed
                <=> (Cardinality(DistinctCodes(all_cartons[c].items)) > 1)

\* a returned list with a carton of two slices of one product, not mixed,
\* and a carton of two products, mixed
C3_Witness ==
    /\ pc = "done"
    /\ \E c, d \in Cartons :
          /\ Len(all_cartons[c].items) = 2
          /\ Cardinality(DistinctCodes(all_cartons[c].items)) = 1
          /\ ~all_cartons[c].is_mixed
          /\ Cardinality(DistinctCodes(all_cartons[d].items)) = 2
          /\ all_cartons[d].is_mixed

BadQuantity(run) == run.quantity <= 0 \/ run.end_serial < run.start_serial

\* C4: a call whose list holds a run of non-positive quantity, or with
\* end_serial < start_serial, never returns a carton list.
C4_BadQuantityRejected ==
    (\E r \in 1..Len(cart_items) : BadQuantity(cart_items[r])) => pc # "done"

SpanMatches(run) == run.quantity = run.end_serial - run.start_serial + 1

C7_BucketOrder ==
    pc = "done" =>
        \A c, d \in Cartons :
            c < d => FirstRun(all_cartons[c].product_type)
                        <= FirstRun(all_cartons[d].product_type)

\* runs of buckets X, Y, X in this order, each of which put lines in the
\* result, and the result holds cartons of both buckets
C7_Witness ==
    /\ pc = "done"
    /\ Len(cart_items) = 3
    /\ get_product_type(cart_items[1].product.code)
          = get_product_type(cart_items[3].product.code)
    /\ get_product_type(cart_items[1].product.code)
          # get_product_type(cart_items[2].product.code)
    /\ \A r \in 1..3 : LinesOf(r) # {}
    /\ \E p \in LinesOf(3), q \in LinesOf(2) : p[1] < q[1]

C10_OnlyLastUnderfilled ==
    pc = "done" =>
        \A c, d \in Cartons :
            (c < d /\ all_cartons[c].product_type = all_cartons[d].product_type)
            => /\ all_cartons[c].total_quantity = all_cartons[c].capacity
               /\ SumQty(all_cartons[c].items) = all_cartons[c].capacity

\* a bucket with two sealed mixer cartons followed by an under-filled last one
C10_Witness ==
    /\ pc = "done"
    /\ \E c, d, e \in Cartons :
          /\ c < d /\ d < e
          /\ \A x \in {c, d, e} :
                /\ carton_src[x].phase = "mix"
                /\ all_cartons[x].product_type = all_cartons[c].product_type
          /\ all_cartons[e].total_quantity < all_cartons[e].capacity

RunOf(p) == carton_src[p[1]].runs[p[2]]

\* position p is read before position q (carton order, then line order)
Before(p, q) == p[1] < q[1] \/ (p[1] = q[1] /\ p[2] < q[2])

\* the mixer's lines of the bucket of type t
MixLines(t) ==
    { p \in LinePos : /\ carton_src[p[1]].phase = "mix"
                      /\ all_cartons[p[1]].product_type = t }

FillCartonsOf(r) ==
    { c \in Cartons : carton_src[c].phase = "fill" /\ carton_src[c].runs[1] = r }

\* C11: every carton of the single-product filling phase has exactly one
\* line, which covers capacity consecutive serials of its run starting a
\* whole number of cartons after the run's start, with quantity and
\* total_quantity equal to capacity and is_mixed false.
C11_FillerCartons ==
    pc = "done" =>
        \A c \in Cartons :
            carton_src[c].phase = "fill" =>
                LET carton == all_cartons[c]
                    line == carton.items[1]
                    run == cart_items[carton_src[c].runs[1]]
                IN  /\ Len(carton.items) = 1
                    /\ line.product_code = run.product.code
                    /\ line.end_serial - line.start_serial + 1 = carton.capacity
                    /\ line.quantity = carton.capacity
                    /\ carton.total_quantity = carton.capacity
                    /\ ~carton.is_mixed
                    /\ run.start_serial <= line.start_serial
                    /\ line.end_serial <= run.end_serial
                    /\ (line.start_serial - run.start_serial) % carton.capacity = 0

\* a returned list with full cartons of two buckets and a mixer carton
C11_Witness ==
    /\ pc = "done"
    /\ \E c, d, e \in Cartons :
          /\ carton_src[c].phase = "fill" /\ carton_src[d].phase = "fill"
          /\ all_cartons[c].capacity # all_cartons[d].capacity
          /\ carton_src[e].phase = "mix"

\* C12: in every carton every line's product_code maps to the carton's
\* product_type, and the carton's capacity is the capacity of each of these
\* product codes.
C12_OneFamily ==
    pc = "done" =>
        \A p \in LinePos :
            /\ get_product_type(LineAt(p).product_code)
                  = all_cartons[p[1]].product_type
            /\ get_carton_capacity(LineAt(p).product_code)
                  = all_cartons[p[1]].capacity

\* a returned list with a mixed carton of two products and cartons of two
\* buckets, the bucket of the mixed carton not being the first of the cart
C12_Witness ==
    /\ pc = "done"
    /\ \E c, d \in Cartons :
          /\ all_cartons[c].is_mixed
          /\ all_cartons[c].product_type # all_cartons[d].product_type
          /\ d < c

\* C14: packing an empty list returns an empty list.
C14_EmptyCart ==
    (pc = "done" /\ cart_items = <<>>) => all_cartons = <<>>

\* the call on the empty list has returned
C14_Witness ==
    pc = "done" /\ cart_items = <<>>

\* C18: for a run of quantity q in a bucket of capacity c the filling phase
\* emits exactly floor(q / c) full cartons, and the mixer receives the tail
\* of q mod c units [end_serial - (q mod c) + 1, end_serial] when
\* q mod c > 0 and nothing of the run otherwise.
C18_FillCounts ==
    pc = "done" =>
        \A r \in 1..Len(cart_items) :
            LET run == cart_items[r]
                q == run.quantity
                c == get_carton_capacity(run.product.code)
                tail == { p \in MixLines(get_product_type(run.product.code)) :
                            RunOf(p) = r }
            IN  /\ Cardinality(FillCartonsOf(r)) = q \div c
                /\ UNION { Serials(LineAt(p)) : p \in tail }
                      = IF q % c > 0
                        THEN (run.end_serial - (q % c) + 1) .. run.end_serial
                        ELSE {}

\* the statement of C18 for the runs whose quantity is their serial span
\* and is not negative
FillCountsOfValidRuns ==
    pc = "done" =>
        \A r \in 1..Len(cart_items) :
            LET run == cart_items[r]
                q == run.end_serial - run.start_serial + 1
                c == get_carton_capacity(run.product.code)
                tail == { p \in MixLines(get_product_type(run.product.code)) :
                            RunOf(p) = r }
            IN  q >= 0 =>
                /\ Cardinality(FillCartonsOf(r)) = q \div c
                /\ UNION { Serials(LineAt(p)) : p \in tail }
                      = IF q % c > 0
                        THEN (run.end_serial - (q % c) + 1) .. run.end_serial
                        ELSE {}

\* C19: a step of the mixer on a remainder larger than the free space of
\* the buffer adds the front slice of exactly free units, from the
\* remainder's current start serial, seals the buffer as a carton of
\* total_quantity = capacity, and goes on with the rest of the remainder,
\* from the next serial, in an empty buffer.
C19_MixerSplit ==
    [][ (pc = "mix" /\ remaining_to_pack > 0
                    /\ remaining_to_pack > capacity - current_carton_qty)
        => LET free == capacity - current_carton_qty
               front == [product_code |-> remainders[ri].product_code,
                         product_name |-> remainders[ri].product_name,
                         start_serial |-> current_start,
                         end_serial |-> current_start + free - 1,
                         quantity |-> free,
                         location_code |-> remainders[ri].location_code]
               sealed == all_cartons'[Len(all_cartons) + 1]
           IN  /\ Len(all_cartons') = Len(all_cartons) + 1
               /\ sealed.items = IF free > 0
                                 THEN Append(current_carton_items, front)
                                 ELSE current_carton_items
               /\ sealed.total_quantity = capacity
               /\ SumQty(sealed.items) = capacity
               /\ current_carton_items' = <<>>
               /\ current_carton_qty' = 0
               /\ current_start' = current_start + free
               /\ remaining_to_pack' = remaining_to_pack - free
               /\ remaining_to_pack' > 0
      ]_vars

\* the mixer has split a remainder: a mixed carton of two products filled to
\* capacity, followed by a carton that starts with the rest of the second
\* product, from the next serial, and is not mixed
C19_Witness ==
    /\ pc = "done"
    /\ \E c \in Cartons :
          /\ c + 1 \in Cartons
          /\ carton_src[c].phase = "mix" /\ carton_src[c + 1].phase = "mix"
          /\ Len(all_cartons[c].items) = 2
          /\ all_cartons[c].is_mixed
          /\ all_cartons[c].total_quantity = all_cartons[c].capacity
          /\ carton_src[c].runs[2] = carton_src[c + 1].runs[1]
          /\ all_cartons[c + 1].items[1].start_serial
                = all_cartons[c].items[2].end_serial + 1
          /\ Len(all_cartons[c + 1].items) = 1
          /\ ~all_cartons[c + 1].is_mixed

\* C20: read in carton order and line order, the mixer's lines of a bucket
\* follow the order in which their runs were declared, and the pieces of
\* one remainder are in ascending serial order.
C20_DeclarationOrder ==
    pc = "done" =>
        \A k \in 1..Len(items_by_type) :
            \A p, q \in MixLines(items_by_type[k].type) :
                Before(p, q) =>
                    \/ RunOf(p) < RunOf(q)
                    \/ /\ RunOf(p) = RunOf(q)
                       /\ LineAt(p).end_serial < LineAt(q).start_serial

\* a bucket with three remainders, the second of which is split
C20_Witness ==
    /\ pc = "done"
    /\ \E k \in 1..Len(items_by_type) :
          \E p, q, u, v \in MixLines(items_by_type[k].type) :
              /\ Before(p, q) /\ Before(q, u) /\ Before(u, v)
              /\ RunOf(p) < RunOf(q)
              /\ RunOf(q) = RunOf(u)
              /\ RunOf(u) < RunOf(v)

\* C15: a carton that is in the result list is never modified by a later
\* step of the call, its list of lines included (the result list only
\* grows at its end), and no step changes the input cart or a run of it
C15_NoMutationAfterEmit ==
    [][ /\ Len(all_cartons') >= Len(all_cartons)
        /\ \A c \in 1..Len(all_cartons) : all_cartons'[c] = all_cartons[c]
        /\ cart_items' = cart_items ]_vars

\* the mixer sealed a carton and went on filling its buffer, and the last
\* carton of a bucket was followed by the mixer of another bucket
C15_Witness ==
    /\ pc = "done"
    /\ \E c, d, e \in 1..Len(all_cartons) :
          /\ c < d /\ d < e
          /\ carton_src[c].phase = "mix"
          /\ carton_src[d].phase = "mix"
          /\ carton_src[e].phase = "mix"
          /\ all_cartons[c].product_type = all_cartons[d].product_type
          /\ all_cartons[d].product_type # all_cartons[e].product_type

\* C13: for every product code both classifier functions return a value:
\* when the code begins with a prefix of the capacity table, the first such
\* entry of the table gives the bucket and the capacity; when it begins with
\* none, the bucket is OTHER and the capacity is 100
C13_Classifier ==
    cls_out.called =>
        LET begins(k) ==
                /\ Len(code_in) >= Len(CARTON_CAPACITIES[k].prefix)
                /\ \A i \in 1..Len(CARTON_CAPACITIES[k].prefix) :
                      code_in[i] = CARTON_CAPACITIES[k].prefix[i]
            hits == {k \in 1..Len(CARTON_CAPACITIES) : begins(k)}
        IN  IF hits = {}
            THEN /\ cls_out.type = TypeOTHER
                 /\ cls_out.capacity = DefaultCapacity
            ELSE \E k \in hits :
                    /\ \A j \in hits : k <= j
                    /\ cls_out.type = CARTON_CAPACITIES[k].prefix
                    /\ cls_out.capacity = CARTON_CAPACITIES[k].capacity

\* a code that holds a prefix of the table, but not at its start, was
\* classified
C13_Witness ==
    /\ cls_out.called
    /\ code_in = <<"A">> \o PCS4
    /\ cls_out.type = TypeOTHER

\* C16: the transports are called in the priority order of the platform
\* (Windows: spooler, file copy, direct USB, serial; otherwise: lp, direct
\* USB, serial), nothing is called after a transport has succeeded, and
\* print_label returns success exactly for the transport that succeeded,
\* naming it
C16_PriorityOrder ==
    LET order == IF platform = "win32"
                 THEN <<"Windows Spooler", "File Copy", "Direct USB", "Serial Port">>
                 ELSE <<"LP Command", "Direct USB", "Serial Port">>
        n == Len(attempts)
    IN  /\ n <= Len(order)
        /\ \A i \in 1..n : attempts[i].method = order[i]
        /\ \A i \in 1..(n - 1) : ~attempts[i].ok
        /\ (n > 0 /\ attempts[n].ok) =>
              /\ ppc = "returned"
              /\ result.ok
              /\ result.via = <<order[n], printer_name>>
        /\ (ppc = "returned" /\ result.ok) => (n > 0 /\ attempts[n].ok)

\* on Windows the spooler and the file copy failed and the direct port
\* printed
C16_Witness ==
    /\ ppc = "returned"
    /\ platform = "win32"
    /\ result.ok
    /\ Len(attempts) = 3
    /\ result.via[1] = "Direct USB"

\* C17: when print_label returns the failure of all transports, every
\* transport of the platform has been called, and the message holds one
\* entry per transport, in the order of the calls, each made of the
\* transport's name and of the error its own call set
C17_AggregatedErrors ==
    (ppc = "returned" /\ available /\ ~result.ok) =>
        LET n == IF platform = "win32" THEN 4 ELSE 3 IN
        /\ Len(attempts) = n
        /\ \A i \in 1..n : ~attempts[i].ok
        /\ Len(result.errors) = n
        /\ \A i \in 1..n :
              /\ attempts[i].error # None
              /\ result.errors[i] = <<attempts[i].method, attempts[i].error>>

\* every transport of a machine that is not Windows failed, the serial
\* port last
C17_Witness ==
    /\ ppc = "returned"
    /\ available
    /\ platform = "other"
    /\ ~result.ok
    /\ Len(result.errors) = 3
    /\ result.errors[3] = <<"Serial Port", "Serial port error">>

\* C21: the step taken after the last remainder of a bucket appends one
\* carton, holding the buffer and with total_quantity = current_carton_qty,
\* when the buffer is not empty, and appends nothing when it is empty; and
\* no step appends to the result a carton without lines or with
\* total_quantity 0 or less (a remainder that meets a full buffer included)
C21_FinalCarton ==
    [][ /\ \A c \in (Len(all_cartons) + 1)..Len(all_cartons') :
              /\ all_cartons'[c].items # <<>>
              /\ all_cartons'[c].total_quantity > 0
        /\ (pc = "remainder" /\ ri = Len(remainders)) =>
              IF current_carton_items # <<>>
              THEN /\ Len(all_cartons') = Len(all_cartons) + 1
                   /\ SubSeq(all_cartons', 1, Len(all_cartons)) = all_cartons
                   /\ all_cartons'[Len(all_cartons')].items = current_carton_items
                   /\ all_cartons'[Len(all_cartons')].total_quantity
                         = current_carton_qty
              ELSE all_cartons' = all_cartons ]_vars

\* a remainder met a buffer that was exactly full: a mixer carton is
\* followed, in its bucket, by one that starts with another run, and the
\* bucket ends with a partial carton
C21_Witness ==
    /\ pc = "done"
    /\ \E c \in 1..(Len(all_cartons) - 1) :
          /\ carton_src[c].phase = "mix"
          /\ carton_src[c + 1].phase = "mix"
          /\ all_cartons[c].product_type = all_cartons[c + 1].product_type
          /\ carton_src[c].runs[Len(carton_src[c].runs)]
                # carton_src[c + 1].runs[1]
          /\ all_cartons[c + 1].total_quantity < all_cartons[c + 1].capacity

\* C24: in every carton of the returned list total_quantity is the sum of
\* the quantities of the carton's lines
C24_TotalIsSum ==
    pc = "done" =>
        \A c \in Cartons :
            all_cartons[c].total_quantity = SumQty(all_cartons[c].items)

\* a sealed mixer carton of several lines, its total written as capacity,
\* followed by the partial carton of its bucket
C24_Witness ==
    /\ pc = "done"
    /\ \E c \in 1..(Len(all_cartons) - 1) :
          /\ carton_src[c].phase = "mix"
          /\ carton_src[c + 1].phase = "mix"
          /\ all_cartons[c].product_type = all_cartons[c + 1].product_type
          /\ Len(all_cartons[c].items) >= 2
          /\ all_cartons[c].total_quantity = all_cartons[c].capacity
          /\ all_cartons[c + 1].total_quantity
                = SumQty(all_cartons[c + 1].items)

\* C25: every line of every carton of the returned list is a non-empty
\* contiguous slice: start_serial <= end_serial and
\* quantity = end_serial - start_serial + 1 >= 1
C25_LineIsSlice ==
    pc = "done" =>
        \A p \in LinePos :
            /\ LineAt(p).start_serial <= LineAt(p).end_serial
            /\ LineAt(p).quantity
                  = LineAt(p).end_serial - LineAt(p).start_serial + 1
            /\ LineAt(p).quantity >= 1

\* the mixer cut a remainder so that a single unit closed a carton
C25_Witness ==
    /\ pc = "done"
    /\ \E p \in LinePos :
          /\ carton_src[p[1]].phase = "mix"
          /\ p[2] >= 2
          /\ LineAt(p).quantity = 1
          /\ LineAt(p).start_serial = LineAt(p).end_serial

\* C26: whenever the condition of the mixing loop (line 168) is evaluated,
\* 0 <= current_carton_qty <= capacity and current_carton_qty is the sum of
\* the quantities of the lines of current_carton_items
C26_MixerInvariant ==
    pc = "mix" =>
        /\ 0 <= current_carton_qty
        /\ current_carton_qty <= capacity
        /\ current_carton_qty = SumQty(current_carton_items)

\* the loop condition evaluated right after a carton was sealed, with the
\* rest of the remainder still to pack
C26_Witness ==
    /\ pc = "mix"
    /\ remaining_to_pack > 0
    /\ ri >= 2
    /\ current_carton_items = <<>>
    /\ current_carton_qty = 0
    /\ all_cartons # <<>>
    /\ carton_src[Len(carton_src)].phase = "mix"

\* C23: the cartons the PDF export gets from pack_cartons_smart hold the
\* capacities its documentation states: 300 for wallets, 50 for 4PC sets,
\* 15 for laptop bags
C23_DocumentedCapacities ==
    pc = "done" =>
        \A c \in Cartons :
            /\ all_cartons[c].product_type = WALT => all_cartons[c].capacity = 300
            /\ all_cartons[c].product_type = PCS4 => all_cartons[c].capacity = 50
            /\ all_cartons[c].product_type = LAPB => all_cartons[c].capacity = 15

\* C27: every carton of the returned list that is not mixed has exactly
\* one line, so that its row of the delivery note's carton breakdown shows
\* the carton's whole total_quantity and all its serials
C27_NonMixedOneLine ==
    pc = "done" =>
        \A c \in Cartons :
            ~all_cartons[c].is_mixed =>
                /\ Len(all_cartons[c].items) = 1
                /\ Len(BreakdownRow(all_cartons[c])) = 1
                /\ BreakdownRow(all_cartons[c])[1].quantity
                      = all_cartons[c].total_quantity

\* an iteration of the filling loop that stays in the loop moves
\* current_serial forward by capacity
FillAdvances ==
    (pc = "fill" /\ pc' = "fill") =>
        (capacity > 0 /\ current_serial' = current_serial + capacity)

\* an iteration of the mixing loop lowers remaining_to_pack, or seals a
\* full buffer and leaves an empty one with room for what remains
MixAdvances ==
    (pc = "mix" /\ pc' = "mix") =>
        \/ (remaining_to_pack' < remaining_to_pack /\ remaining_to_pack' >= 0)
        \/ (/\ remaining_to_pack' = remaining_to_pack
            /\ current_carton_qty = capacity
            /\ current_carton_qty' = 0
            /\ remaining_to_pack < capacity)

\* C22: every call returns; each iteration of the filling loop that emits
\* a carton moves current_serial forward by capacity, and each iteration of
\* the mixing loop either lowers remaining_to_pack or seals a full buffer
\* so that the next iteration lowers it
C22_Terminates ==
    (<>(pc = "done")) /\ [][FillAdvances /\ MixAdvances]_vars

\* a call that returned after the filling loop ran twice on one run and
\* the mixing loop sealed a carton
C22_Witness ==
    /\ pc = "done"
    /\ \E c, d \in Cartons :
          /\ c < d
          /\ carton_src[c].phase = "fill"
          /\ carton_src[d].phase = "mix"
          /\ carton_src[d].runs # <<>>
          /\ all_cartons[d].total_quantity = all_cartons[d].capacity

\* C28: for every cart the operator can build, once the cart is packed
\* the Total Items of the delivery note (the sum of the quantity fields of
\* the cart items) is the sum of total_quantity over the returned cartons
C28_TotalItems ==
    pc = "done" =>
        total_items(cart_items)
            = SumQty([c \in Cartons |->
                        [quantity |-> all_cartons[c].total_quantity]])

\* the same for the carts whose quantities are all zero or more
TotalItemsOfValidCart ==
    (pc = "done" /\ \A r \in 1..Len(cart_items) : cart_items[r].quantity >= 0)
        => total_items(cart_items)
              = SumQty([c \in Cartons |->
                          [quantity |-> all_cartons[c].total_quantity]])

\* C29: for every cart the operator can build, once the cart is packed no
\* two lines of the result with the same location_code and product_code
\* hold a common serial
C29_NoDuplicateSerials ==
    pc = "done" =>
        \A p, q \in LinePos :
            (/\ p # q
             /\ LineAt(p).location_code = LineAt(q).location_code
             /\ LineAt(p).product_code = LineAt(q).product_code)
                => Serials(LineAt(p)) \cap Serials(LineAt(q)) = {}

\* C30: when _print_all_cart has ended, the cart is empty, every barcode
\* it collected is counted once, in success_count or in fail_count, and the
\* history holds exactly the barcodes counted in success_count
C30_EveryUnitAccounted ==
    pa_pc \in {"raised", "finished"} =>
        /\ cart_items = <<>>
        /\ success_count + fail_count = Len(all_barcodes)
        /\ Len(history) = success_count

====
